---------------------------- MODULE Spec2Model ----------------------------
(***************************************************************************)
(* A model of the AI-Therapy journaling application: the lexical analyzer  *)
(* (nlpUtils), the profile updater, the session state machine and the      *)
(* response orchestrator (therapistUtils, llamaApiUtils), the two crisis   *)
(* detectors (apiUtils, crisisDetectionUtils) and the useConversation hook *)
(* with the App submission paths that drive it.                            *)
(*                                                                         *)
(* Texts are TLA+ strings; the analyzer is computed on their characters as *)
(* the source computes it.  Fractions are exact: a profile scalar v is     *)
(* held as the integer v * Scale, other ratios as records [n, d] (d = 0    *)
(* is JavaScript's NaN, the result of 0/0).                                *)
(***************************************************************************)
EXTENDS Integers, Sequences, FiniteSets, TLC

(***************************************************************************)
(* Bounds of the model.                                                    *)
(***************************************************************************)
\* updateSessionState calls in a run of SessionSpec
MaxCalls == 3
\* user submissions (addUserMessage calls) in a run of Spec
MaxTurns == 2
\* clearConversation calls in a run of Spec
MaxClears == 1
\* messages in the longest conversation history handed to generateTherapistResponse
MaxHistory == 12
\* words in the longest text put together from Vocabulary for analyzeText
MaxWords == 3
\* the last instant, in ms after the mount, a run of SpeechSpec reaches
MaxClock == 70000
\* the times the microphone button starts listening in a run of SpeechSpec
MaxStarts == 2

Max2(a, b) == IF a >= b THEN a ELSE b

\* One unit of a profile scalar is 1/Scale: every blend of the run is exact.
Scale == 10 ^ (Max2(MaxCalls, MaxTurns) + 1)

Null == "<null>"
Undefined == "<undefined>"

(***************************************************************************)
(* Strings: String.prototype.toLowerCase, includes, trim, split, match.    *)
(***************************************************************************)
UpperChars == "ABCDEFGHIJKLMNOPQRSTUVWXYZ"
LowerChars == "abcdefghijklmnopqrstuvwxyz"
DigitChars == "0123456789_"

CharAt(s, i) == SubSeq(s, i, i)

CharSet(s) == { CharAt(s, i) : i \in 1..Len(s) }

LowerOf(c) ==
  IF \E i \in 1..Len(UpperChars) : CharAt(UpperChars, i) = c
  THEN CharAt(LowerChars, CHOOSE i \in 1..Len(UpperChars) : CharAt(UpperChars, i) = c)
  ELSE c

RECURSIVE toLowerCase(_)
toLowerCase(s) ==
  IF s = "" THEN "" ELSE LowerOf(Head(s)) \o toLowerCase(Tail(s))

includes(s, p) ==
  \E i \in 1..(Len(s) - Len(p) + 1) : SubSeq(s, i, i + Len(p) - 1) = p

startsWith(s, p) == Len(s) >= Len(p) /\ SubSeq(s, 1, Len(p)) = p

IsSpace(c) == c = " "

\* s.trim().length > 0
trimNonEmpty(s) == \E i \in 1..Len(s) : ~IsSpace(CharAt(s, i))

\* the separator classes of the three regular expressions used to cut a text:
\* /\s+/, /[.!?]+/ and the complement of \w (for match(/\b(\w+)\b/g))
IsSep(class, c) ==
  CASE class = "space"    -> IsSpace(c)
    [] class = "sentence" -> c \in {".", "!", "?"}
    [] class = "nonword"  -> c \notin (CharSet(UpperChars) \cup CharSet(LowerChars)
                                        \cup CharSet(DigitChars))

\* String.prototype.split on a regular expression of the form /[class]+/
RECURSIVE splitFrom(_, _, _, _)
splitFrom(s, class, i, cur) ==
  IF i > Len(s) THEN << cur >>
  ELSE IF IsSep(class, CharAt(s, i))
       THEN IF i > 1 /\ IsSep(class, CharAt(s, i - 1))
            THEN splitFrom(s, class, i + 1, cur)
            ELSE << cur >> \o splitFrom(s, class, i + 1, "")
       ELSE splitFrom(s, class, i + 1, cur \o CharAt(s, i))

split(s, class) == splitFrom(s, class, 1, "")

\* text.match(/\b(\w+)\b/g) || []
matchWords(s) == SelectSeq(split(s, "nonword"), LAMBDA w : w # "")

RECURSIVE SumLen(_)
SumLen(ws) == IF ws = << >> THEN 0 ELSE Len(Head(ws)) + SumLen(Tail(ws))

SeqToSet(q) == { q[i] : i \in 1..Len(q) }

\* Array.prototype.filter on a sequence of strings, by membership
CountIn(ws, set) == Len(SelectSeq(ws, LAMBDA w : w \in set))

(***************************************************************************)
(* Exact fractions n/d; d = 0 stands for NaN, whose comparisons are false. *)
(***************************************************************************)
Rat(n, d) == [n |-> n, d |-> d]
IsNaN(r) == r.d = 0
\* r > a/b, r >= a/b, r <= a/b   (b > 0)
RatGt(r, a, b) == r.d > 0 /\ r.n * b > a * r.d
RatGe(r, a, b) == r.d > 0 /\ r.n * b >= a * r.d
RatLe(r, a, b) == r.d > 0 /\ r.n * b <= a * r.d

(***************************************************************************)
(* Lexical analyzer (nlpUtils).                                            *)
(***************************************************************************)
positiveWords ==
  { "good", "great", "happy", "positive", "excellent", "wonderful", "joy",
    "love", "hope", "excited", "grateful", "thankful", "appreciate",
    "better", "calm", "peaceful", "relaxed", "confident", "proud" }

negativeWords ==
  { "bad", "sad", "angry", "negative", "terrible", "horrible", "awful",
    "hate", "fear", "worried", "anxious", "depressed", "stressed",
    "worse", "upset", "frustrated", "annoyed", "disappointed", "hurt" }

intensifiers ==
  { "very", "extremely", "incredibly", "really", "so", "absolutely",
    "completely", "totally", "utterly", "thoroughly" }

sentimentLabel(score) ==
  IF RatLe(score, -6, 10) THEN "very_negative"
  ELSE IF RatLe(score, -2, 10) THEN "negative"
  ELSE IF RatGe(score, 6, 10) THEN "very_positive"
  ELSE IF RatGe(score, 2, 10) THEN "positive"
  ELSE "neutral"

analyzeSentiment(text) ==
  LET words == matchWords(toLowerCase(text))
      positiveCount == CountIn(words, positiveWords)
      negativeCount == CountIn(words, negativeWords)
      intensifierCount == CountIn(words, intensifiers)
      totalSentimentWords == positiveCount + negativeCount
      score == IF totalSentimentWords = 0 THEN Rat(0, 1)
               ELSE Rat(positiveCount - negativeCount, totalSentimentWords)
      \* (total / words.length) * (1 + intensifiers / words.length): 0/0 is NaN
      magnitude == IF Len(words) = 0 THEN Rat(0, 0)
                   ELSE Rat(totalSentimentWords * (Len(words) + intensifierCount),
                            Len(words) * Len(words))
  IN [score |-> score, magnitude |-> magnitude, label |-> sentimentLabel(score)]

EmotionNames ==
  { "anxiety", "sadness", "anger", "fear", "joy", "surprise", "disgust", "trust" }

emotionWords ==
  [ anxiety  |-> { "anxious", "nervous", "worry", "stress", "overwhelm", "panic",
                   "afraid", "uneasy" },
    sadness  |-> { "sad", "depressed", "unhappy", "miserable", "heartbroken", "down",
                   "blue", "grief" },
    anger    |-> { "angry", "mad", "furious", "irritated", "annoyed", "frustrated",
                   "enraged", "hostile" },
    fear     |-> { "scared", "afraid", "terrified", "frightened", "fearful",
                   "panicked", "alarmed" },
    joy      |-> { "happy", "joyful", "excited", "delighted", "pleased", "glad",
                   "cheerful", "content" },
    surprise |-> { "surprised", "shocked", "amazed", "astonished", "stunned",
                   "unexpected" },
    disgust  |-> { "disgusted", "revolted", "repulsed", "sickened", "appalled",
                   "horrified" },
    trust    |-> { "trust", "believe", "confident", "faith", "assured", "certain",
                   "reliance" } ]

\* an intensity that is not capped
emotionIntensityUncapped(matched) == 2 * matched

\* An intensity is held in tenths: 0.2 per matched keyword, capped at 1.0.
emotionIntensity(matched) == IF 2 * matched > 10 THEN 10 ELSE 2 * matched

nlpDetectEmotions(text) ==
  LET lowerText == toLowerCase(text)
  IN [ e \in EmotionNames |->
         emotionIntensity(Cardinality({ w \in emotionWords[e] : includes(lowerText, w) })) ]

TopicOrder ==
  << "work", "relationships", "family", "health", "mental health", "finance",
     "education", "housing", "self-improvement", "social life" >>

topicKeywords(topic) ==
  CASE topic = "work" -> { "work", "job", "career", "boss", "office", "colleague",
                           "profession", "employment" }
    [] topic = "relationships" -> { "relationship", "partner", "marriage", "dating",
                                    "spouse", "boyfriend", "girlfriend" }
    [] topic = "family" -> { "family", "parent", "child", "mother", "father", "sister",
                             "brother", "son", "daughter" }
    [] topic = "health" -> { "health", "illness", "disease", "doctor", "hospital",
                             "pain", "symptom", "diagnosis" }
    [] topic = "mental health" -> { "anxiety", "depression", "therapy", "counseling",
                                    "mental", "psychiatrist", "psychologist" }
    [] topic = "finance" -> { "money", "finance", "debt", "budget", "saving", "expense",
                              "income", "investment" }
    [] topic = "education" -> { "school", "college", "university", "degree", "study",
                                "learn", "education", "student" }
    [] topic = "housing" -> { "home", "house", "apartment", "rent", "mortgage",
                              "roommate", "living situation" }
    [] topic = "self-improvement" -> { "goal", "improvement", "growth", "development",
                                       "progress", "better", "skill" }
    [] topic = "social life" -> { "friend", "social", "party", "gathering", "community",
                                  "connection", "loneliness" }

nlpExtractTopics(text) ==
  LET lowerText == toLowerCase(text)
  IN SelectSeq(TopicOrder,
               LAMBDA topic : \E k \in topicKeywords(topic) : includes(lowerText, k))

\* Math.max(0, Math.min(raw, 1))
clampComplexity(raw) ==
  IF raw.n > raw.d THEN Rat(1, 1) ELSE IF raw.n < 0 THEN Rat(0, 1) ELSE raw

\* entities and keyPhrases (the latter scored with Math.random) are informational
\* only: nothing downstream reads them, and they are left out of the record.
analyzeText(text) ==
  LET words == split(text, "space")
      n == Len(words)
      chars == SumLen(words)
      sentences == SelectSeq(split(text, "sentence"), LAMBDA s : trimNonEmpty(s))
      sc == IF Len(sentences) = 0 THEN 1 ELSE Len(sentences)
      \* ((chars/n - 3) / 3) * 0.5 + ((n/sc - 5) / 15) * 0.5
      raw == Rat(5 * sc * (chars - 3 * n) + n * (n - 5 * sc), 30 * n * sc)
  IN [ sentiment  |-> analyzeSentiment(text),
       tokenCount |-> n,
       complexity |-> clampComplexity(raw),
       topics     |-> nlpExtractTopics(text),
       emotions   |-> nlpDetectEmotions(text) ]

(***************************************************************************)
(* The two crisis detectors: containsCrisisIndicators (apiUtils), read by  *)
(* the session state machine, and detectCrisisPhrases                      *)
(* (crisisDetectionUtils), read by the App before it submits.              *)
(***************************************************************************)
crisisKeywords ==
  { "suicide", "kill myself", "end my life", "want to die",
    "harm myself", "hurt myself", "self-harm",
    "no reason to live", "better off dead" }

containsCrisisIndicators(text) ==
  LET lowerText == toLowerCase(text)
  IN \E keyword \in crisisKeywords : includes(lowerText, keyword)

CRISIS_PHRASES ==
  << "kill myself", "end my life", "suicide", "suicidal", "don't want to live",
     "want to die", "better off dead", "take my own life", "ending it all",
     "no reason to live",
     "hurt myself", "self harm", "cutting myself", "harming myself", "injure myself",
     "can't take it anymore", "no way out", "unbearable pain", "hopeless",
     "no future", "giving up", "lost all hope",
     "emergency", "crisis", "urgent help", "immediate danger",
     "overdose", "jump off", "hang myself", "pills", "gun" >>

\* the first phrase of the list found in the text, or null
detectCrisisPhrases(text) ==
  LET lowerText == toLowerCase(text)
      hits == { i \in 1..Len(CRISIS_PHRASES) : includes(lowerText, CRISIS_PHRASES[i]) }
  IN IF text = "" \/ hits = {} THEN Null
     ELSE CRISIS_PHRASES[CHOOSE i \in hits : \A j \in hits : i <= j]

getCrisisResponse(phrase) ==
  IF phrase = Null THEN ""
  ELSE "I notice you mentioned something concerning. Your wellbeing is important, and I want to make sure you're safe. I'm showing you some resources that might help. These are trained professionals who can provide better support than I can. Please consider reaching out to one of these services - they're available 24/7 and are trained to help with exactly what you're going through. You're not alone in this, and support is available."

(***************************************************************************)
(* Profile updater (nlpUtils).  A profile object's nested objects          *)
(* (personalityTraits, values, interests, concerns, communicationStyle,    *)
(* learningHistory) live in one heap cell: the profile value held by a     *)
(* session state is the reference to that cell, so that two profile        *)
(* objects sharing their nested objects are two uses of one reference.     *)
(***************************************************************************)
Tenths(k) == k * (Scale \div 10)

createInitialUserProfile ==
  [ personalityTraits  |-> [ openness |-> Tenths(5), conscientiousness |-> Tenths(5),
                             extraversion |-> Tenths(5), agreeableness |-> Tenths(5),
                             neuroticism |-> Tenths(5) ],
    values             |-> << >>,
    interests          |-> << >>,
    concerns           |-> << >>,
    communicationStyle |-> [ verbose |-> Tenths(5), emotional |-> Tenths(5),
                             analytical |-> Tenths(5), concrete |-> Tenths(5),
                             abstract |-> Tenths(5) ],
    learningHistory    |-> [ topicsDiscussed |-> << >>, insightsGained |-> << >>,
                             techniquesLearned |-> << >> ] ]

\* a smoothing that adds the new value's share without scaling the old value down
weightedAverageUnscaled(currentValue, newValue) == currentValue + (newValue * 3) \div 10

\* currentValue * (1 - weight) + newValue * weight, weight = 0.3
weightedAverage(currentValue, newValue) == (currentValue * 7 + newValue * 3) \div 10

ConcernEmotions == { "anxiety", "sadness", "anger", "fear", "disgust" }

\* !map[key]: the key is absent, or its value is 0
Falsy(map, key) == key \notin DOMAIN map \/ map[key] = 0

\* a learning history that records every topic of every turn
pushEveryTopic(topicsDiscussed, topics) == topicsDiscussed \o topics

\* topics.forEach(topic => { if (!topicsDiscussed.includes(topic)) topicsDiscussed.push(topic) })
pushNewTopics(topicsDiscussed, topics) ==
  topicsDiscussed \o SelectSeq(topics, LAMBDA t : t \notin SeqToSet(topicsDiscussed))

\* a trait update that also lets a negative turn raise neuroticism
updatedTraitsWithNeuroticism(traits, textAnalysis) ==
  IF RatLe(textAnalysis.sentiment.score, -5, 10)
  THEN [ traits EXCEPT !.neuroticism = weightedAverage(@, Tenths(6)) ]
  ELSE traits

\* the personality traits after the two trait blocks of updateUserProfile
updatedTraits(traits, textAnalysis) ==
  LET traits1 == IF RatGt(textAnalysis.sentiment.score, 5, 10)
                 THEN [ traits EXCEPT
                          !.extraversion = weightedAverage(@, Tenths(6)),
                          !.agreeableness = weightedAverage(@, Tenths(6)) ]
                 ELSE traits
  IN IF RatGt(textAnalysis.complexity, 6, 10)
     THEN [ traits1 EXCEPT !.openness = weightedAverage(@, Tenths(7)) ]
     ELSE traits1

\* the profile's nested objects after the body of updateUserProfile has run
updatedProfileFields(p, textAnalysis) ==
  LET topics == SeqToSet(textAnalysis.topics)
      worried == { e \in ConcernEmotions : textAnalysis.emotions[e] > 5 }
      style == [ p.communicationStyle EXCEPT
        !.verbose = weightedAverage(@,
            IF textAnalysis.tokenCount > 100 THEN Tenths(8)
            ELSE IF textAnalysis.tokenCount > 50 THEN Tenths(5) ELSE Tenths(2)),
        !.emotional = weightedAverage(@,
            IF RatGt(textAnalysis.sentiment.magnitude, 7, 10) THEN Tenths(8)
            ELSE IF RatGt(textAnalysis.sentiment.magnitude, 3, 10) THEN Tenths(5)
            ELSE Tenths(2)),
        !.analytical = weightedAverage(@,
            IF RatGt(textAnalysis.complexity, 7, 10) THEN Tenths(8)
            ELSE IF RatGt(textAnalysis.complexity, 4, 10) THEN Tenths(5)
            ELSE Tenths(2)) ]
      interests == [ t \in DOMAIN p.interests \cup topics |->
        IF t \notin topics THEN p.interests[t]
        ELSE IF Falsy(p.interests, t) THEN Tenths(6)
        ELSE weightedAverage(p.interests[t], Tenths(8)) ]
      concerns == [ e \in DOMAIN p.concerns \cup worried |->
        IF e \notin worried THEN p.concerns[e]
        ELSE IF Falsy(p.concerns, e) THEN Tenths(textAnalysis.emotions[e])
        ELSE weightedAverage(p.concerns[e], Tenths(textAnalysis.emotions[e])) ]
      traits2 == updatedTraits(p.personalityTraits, textAnalysis)
      discussed == pushNewTopics(p.learningHistory.topicsDiscussed, textAnalysis.topics)
  IN [ p EXCEPT !.communicationStyle = style,
                !.interests = interests,
                !.concerns = concerns,
                !.personalityTraits = traits2,
                !.learningHistory = [ @ EXCEPT !.topicsDiscussed = discussed ] ]

\* updateUserProfile: `{ ...currentProfile }` copies the six references, not the
\* objects behind them, and every assignment of the body goes through one of them:
\* the call writes the cell of currentProfile and returns a profile on that same cell.
updateUserProfile(heap, currentProfile, textAnalysis, userText) ==
  [ heap    |-> [ heap EXCEPT ![currentProfile] = updatedProfileFields(@, textAnalysis) ],
    profile |-> currentProfile ]

(***************************************************************************)
(* Session state machine (therapistUtils).                                 *)
(***************************************************************************)
\* lastAnalysis is << >> for null and << analysis >> otherwise
createInitialSessionState(profile) ==
  [ dominantEmotions |-> << "neutral" >>,
    recentTopics     |-> << >>,
    approachUsed     |-> << "supportive" >>,
    questionTypes    |-> << >>,
    sessionDepth     |-> 0,
    crisisDetected   |-> FALSE,
    lastQuestionType |-> "opening",
    userInsights     |-> << >>,
    userProfile      |-> profile,
    lastAnalysis     |-> << >> ]

griefWords == { "grief", "loss", "miss", "gone", "died", "death" }

\* detectEmotions of therapistUtils: the reduced emotion categories of a text
detectEmotions(text) ==
  LET emotions == analyzeText(text).emotions
      lowerText == toLowerCase(text)
      result ==
        (IF emotions.anxiety > 4 THEN << "anxiety" >> ELSE << >>)
        \o (IF emotions.sadness > 4 THEN << "depression" >> ELSE << >>)
        \o (IF emotions.anger > 4 THEN << "anger" >> ELSE << >>)
        \o (IF emotions.joy > 4 THEN << "joy" >> ELSE << >>)
        \o (IF \E w \in griefWords : includes(lowerText, w) THEN << "grief" >> ELSE << >>)
        \o (IF \/ emotions.surprise > 4
               \/ includes(lowerText, "confus")
               \/ includes(lowerText, "unsure")
            THEN << "confusion" >> ELSE << >>)
  IN IF result = << >> THEN << "neutral" >> ELSE result

detectCrisis(text) == containsCrisisIndicators(text)

extractTopics(text) == analyzeText(text).topics

(***************************************************************************)
(* Inputs.                                                                 *)
(***************************************************************************)
\* texts handed to updateSessionState in SessionSpec
SessionTexts ==
  { "I want to end my life.",
    "I feel HOPELESS",
    "I feel so anxious about work and can't sleep",
    "anxious nervous worry stress",
    "I am happy and excited, so glad!",
    "psychologist",
    "my job, my family and my money",
    "hello",
    "" }

\* texts typed into the entry box in Spec
TypedTexts ==
  { "I want to end my life.", "I feel HOPELESS", "find: help", "   " }

\* transcripts the speech recognizer delivers in Spec
SpokenTexts == { "hello" }

\* what the chat service answers when it answers
ServiceTexts == { "Tell me more." }

\* texts for one call of updateSessionState in UpdateSpec: one or more of the
\* classes anxiety, depression, anger, grief and confusion in each
EmotionTexts ==
  { "sad unhappy miserable",
    "anxious nervous worry and sad unhappy miserable",
    "I miss her since she died",
    "I am unsure",
    "angry mad furious",
    "sad unhappy miserable since she died, unsure",
    "she died and I am unsure",
    "anxious nervous worry, unsure since she died" }

AllTexts == SessionTexts \cup TypedTexts \cup SpokenTexts \cup EmotionTexts

\* entry.toLowerCase().startsWith('search:') || ...startsWith('find:')
isSearchQuery(entry) ==
  LET lower == toLowerCase(entry)
  IN startsWith(lower, "search:") \/ startsWith(lower, "find:")

\* The pure functions of a text, for every text of the model.
TextFacts ==
  [ t \in AllTexts |->
      [ analyzeText         |-> analyzeText(t),
        detectEmotions      |-> detectEmotions(t),
        detectCrisis        |-> detectCrisis(t),
        extractTopics       |-> extractTopics(t),
        detectCrisisPhrases |-> detectCrisisPhrases(t),
        trimNonEmpty        |-> trimNonEmpty(t),
        isSearchQuery       |-> isSearchQuery(t) ] ]

\* the table TextFacts, evaluated once at the start; it never changes
VARIABLE textFacts

\* Array.prototype.slice(0, k)
sliceHead(q, k) == SubSeq(q, 1, IF Len(q) < k THEN Len(q) ELSE k)
\* a slice that keeps the oldest k elements
sliceOldest(q, k) == SubSeq(q, 1, IF Len(q) < k THEN Len(q) ELSE k)
\* Array.prototype.slice(-k)
sliceTail(q, k) == SubSeq(q, IF Len(q) > k THEN Len(q) - k + 1 ELSE 1, Len(q))

\* a selection that looks for grief before anxiety and depression
selectApproachGriefFirst(emotions) ==
  LET has(e) == e \in SeqToSet(emotions)
  IN IF has("grief") THEN << "supportive", "existential" >>
     ELSE IF has("anxiety") THEN << "cbt", "mindfulness" >>
     ELSE IF has("depression") THEN << "cbt", "supportive" >>
     ELSE IF has("confusion") THEN << "solution-focused", "existential" >>
     ELSE << "supportive", "solution-focused" >>

selectApproach(emotions) ==
  LET has(e) == e \in SeqToSet(emotions)
  IN IF has("anxiety") THEN << "cbt", "mindfulness" >>
     ELSE IF has("depression") THEN << "cbt", "supportive" >>
     ELSE IF has("grief") THEN << "supportive", "existential" >>
     ELSE IF has("confusion") THEN << "solution-focused", "existential" >>
     ELSE << "supportive", "solution-focused" >>

\* an update that counts the turn only when the text is no crisis text
updateSessionStateCountingCalmTurns(heap, currentState, userInput) ==
  LET textAnalysis == textFacts[userInput].analyzeText
      updated == updateUserProfile(heap, currentState.userProfile, textAnalysis, userInput)
      emotions == textFacts[userInput].detectEmotions
      isCrisis == textFacts[userInput].detectCrisis
      topics == textFacts[userInput].extractTopics
  IN [ heap  |-> updated.heap,
       state |-> [ currentState EXCEPT
                     !.dominantEmotions = emotions,
                     !.crisisDetected = isCrisis,
                     !.sessionDepth = IF isCrisis THEN @ ELSE @ + 1,
                     !.userProfile = updated.profile,
                     !.lastAnalysis = << textAnalysis >>,
                     !.recentTopics = sliceHead(topics \o currentState.recentTopics, 3),
                     !.approachUsed = selectApproach(emotions) ] ]

\* an update that puts the new topics behind the old ones
updateSessionStateAppendingTopics(heap, currentState, userInput) ==
  LET textAnalysis == textFacts[userInput].analyzeText
      updated == updateUserProfile(heap, currentState.userProfile, textAnalysis, userInput)
      emotions == textFacts[userInput].detectEmotions
      isCrisis == textFacts[userInput].detectCrisis
      topics == textFacts[userInput].extractTopics
  IN [ heap  |-> updated.heap,
       state |-> [ currentState EXCEPT
                     !.dominantEmotions = emotions,
                     !.crisisDetected = isCrisis,
                     !.sessionDepth = @ + 1,
                     !.userProfile = updated.profile,
                     !.lastAnalysis = << textAnalysis >>,
                     !.recentTopics = sliceHead(currentState.recentTopics \o topics, 3),
                     !.approachUsed = selectApproach(emotions) ] ]

\* The new state, and the heap the call leaves behind.  The values of analyzeText,
\* detectEmotions, detectCrisis and extractTopics are read from their table.
updateSessionState(heap, currentState, userInput) ==
  LET textAnalysis == textFacts[userInput].analyzeText
      updated == updateUserProfile(heap, currentState.userProfile, textAnalysis, userInput)
      emotions == textFacts[userInput].detectEmotions
      isCrisis == textFacts[userInput].detectCrisis
      topics == textFacts[userInput].extractTopics
  IN [ heap  |-> updated.heap,
       state |-> [ currentState EXCEPT
                     !.dominantEmotions = emotions,
                     !.crisisDetected = isCrisis,
                     !.sessionDepth = @ + 1,
                     !.userProfile = updated.profile,
                     !.lastAnalysis = << textAnalysis >>,
                     !.recentTopics = sliceHead(topics \o currentState.recentTopics, 3),
                     !.approachUsed = selectApproach(emotions) ] ]

(***************************************************************************)
(* Chat service client (llamaApiUtils) and response orchestrator.          *)
(* An outcome is what the network and the service do with one request:     *)
(*   ok(content)    2xx, choices[0].message.content is the string content  *)
(*   network_error  fetch rejects                                          *)
(*   http_error     a non-2xx status                                       *)
(*   bad_json       response.json() rejects                                *)
(*   empty_choices  2xx, choices missing or empty                          *)
(*   no_message     2xx, choices[0] has no message (a TypeError, caught)   *)
(*   no_content     2xx, choices[0].message has no content: undefined      *)
(***************************************************************************)
LlamaFallback ==
  "I apologize, but I encountered an issue processing your request. Please try again."

TherapistFallback ==
  "I'm here to listen and support you. Could you tell me more about how you're feeling?"

CrisisSafetyResponse ==
  "I'm concerned about what you're sharing. If you're in immediate danger, please call 988 or 911, or text HOME to 741741 to reach the Crisis Text Line. Your safety is the top priority. Would it be helpful to talk about some immediate coping strategies or resources available to you right now?"

HookErrorResponse ==
  "I'm having trouble processing that right now. Could you try expressing that in a different way?"

\* createTherapySystemPrompt: a fixed text, held by its first line
createTherapySystemPrompt ==
  "You are an AI Therapy Assistant designed to provide supportive, empathetic responses."

FailureKinds ==
  { "network_error", "http_error", "bad_json", "empty_choices", "no_message", "no_content" }

\* what the promise of sendLlamaRequest resolves to once the request has been
\* answered: every failure ends in the catch block, a 2xx body with a first choice
\* is answered with choices[0].message.content, whatever that is
llamaResult(outcome) ==
  CASE outcome.kind = "ok" -> outcome.content
    [] outcome.kind = "no_content" -> Undefined
    [] OTHER -> LlamaFallback

\* a client that posts the request before it looks for the credential
sendLlamaRequestUnguarded(apiKey, messages, systemPrompt) ==
  [ fetched |-> TRUE,
    request |-> (IF systemPrompt # ""
                 THEN << [role |-> "system", content |-> systemPrompt] >>
                 ELSE << >>) \o messages,
    result  |-> Null ]

\* fetched: whether fetch was called; request: the messages posted; result: the
\* value the promise resolves to when no request is made (otherwise it is
\* llamaResult of the outcome).  The promise never rejects: the body is one try/catch.
sendLlamaRequest(apiKey, messages, systemPrompt) ==
  IF ~apiKey
  THEN [ fetched |-> FALSE, request |-> << >>, result |-> LlamaFallback ]
  ELSE [ fetched |-> TRUE,
         request |-> (IF systemPrompt # ""
                      THEN << [role |-> "system", content |-> systemPrompt] >>
                      ELSE << >>) \o messages,
         result  |-> Null ]

toLlamaMessage(msg) ==
  [ role |-> IF msg.type = "entry" THEN "user" ELSE "assistant", content |-> msg.text ]

\* an orchestrator without the crisis branch
generateTherapistResponseWithoutCrisisBranch(heap, apiKey, userInput, sessionState, conversationHistory) ==
  LET upd == updateSessionState(heap, sessionState, userInput)
      recentMessages == sliceTail(conversationHistory, 10)
      llamaMessages == [ i \in 1..Len(recentMessages) |-> toLlamaMessage(recentMessages[i]) ]
                         \o << [role |-> "user", content |-> userInput] >>
      sent == sendLlamaRequest(apiKey, llamaMessages, createTherapySystemPrompt)
  IN [ response |-> sent.result, updatedState |-> upd.state, heap |-> upd.heap,
       called |-> TRUE, fetched |-> sent.fetched, request |-> sent.request ]

\* The call up to its await.  called: whether sendLlamaRequest was called;
\* response: the response when no request is in flight (otherwise it is
\* llamaResult of the outcome).  Nothing inside the try block throws
\* (sendLlamaRequest never rejects), so the catch branch that answers
\* TherapistFallback has no way in.
generateTherapistResponse(heap, apiKey, userInput, sessionState, conversationHistory) ==
  LET upd == updateSessionState(heap, sessionState, userInput)
      recentMessages == sliceTail(conversationHistory, 10)
      llamaMessages == [ i \in 1..Len(recentMessages) |-> toLlamaMessage(recentMessages[i]) ]
                         \o << [role |-> "user", content |-> userInput] >>
      sent == sendLlamaRequest(apiKey, llamaMessages, createTherapySystemPrompt)
  IN IF upd.state.crisisDetected
     THEN [ response |-> CrisisSafetyResponse, updatedState |-> upd.state, heap |-> upd.heap,
            called |-> FALSE, fetched |-> FALSE, request |-> << >> ]
     ELSE [ response |-> sent.result, updatedState |-> upd.state, heap |-> upd.heap,
            called |-> TRUE, fetched |-> sent.fetched, request |-> sent.request ]

\* getInitialGreeting up to its await
GreetingRequest == << [role |-> "user", content |-> "Hello, I would like to start a therapy session."] >>

getInitialGreeting(apiKey) ==
  sendLlamaRequest(apiKey, GreetingRequest, createTherapySystemPrompt)

Outcomes ==
  { [kind |-> "ok", content |-> c] : c \in ServiceTexts }
    \cup { [kind |-> k, content |-> ""] : k \in FailureKinds }

(***************************************************************************)
(* State.                                                                  *)
(***************************************************************************)
VARIABLES
  heap,            \* the profile cells: heap[r] is the cell of reference r
  sessionState,    \* useConversation: sessionState (SessionSpec: the current state)
  conversations,   \* useConversation: conversations
  isTyping,        \* useConversation: isTyping
  emotionHistory,  \* useConversation: emotionHistory
  typingTimerRef,  \* useConversation: typingTimerRef.current (0 is null)
  turns,           \* one record per addUserMessage call: its closure and progress
  greetings,       \* getInitialGreeting calls whose request is in flight
  apiKey,          \* llamaApiUtils: whether LLAMA_API_KEY is set
  crisisHook,      \* useCrisisDetection: isCrisisDetected, crisisPhrase, showModal
  speech,          \* useSpeechRecognition as the App reads it: isListening, transcript
  voiceTimers,     \* App.toggleListening: pending 300 ms timers, with their closures
  clears,          \* clearConversation calls so far
  calls,           \* SessionSpec: updateSessionState calls so far
  initialDepth,    \* SessionSpec: sessionDepth of the first state
  reply,           \* SessionSpec: << >>, or << what the last call resolved with >>
  args,            \* the specifications of one function: the arguments of the call
  returned,        \* the specifications of one function: << >>, or << what it returned >>
  darkMode,        \* useTheme: darkMode
  recognition      \* useSpeechRecognition: the recognizer, the refs, the timers, the clock

vars ==
  << heap, sessionState, conversations, isTyping, emotionHistory, typingTimerRef,
     turns, greetings, apiKey, crisisHook, speech, voiceTimers, clears, calls,
     initialDepth, reply, args, returned, darkMode, recognition, textFacts >>

hookVars ==
  << conversations, isTyping, emotionHistory, typingTimerRef, turns, greetings,
     apiKey, crisisHook, speech, voiceTimers, clears, darkMode, recognition, textFacts >>

(***************************************************************************)
(* SessionSpec: generateTherapistResponse, and updateSessionState within    *)
(* it, called again and again on the state the call before returned.       *)
(***************************************************************************)
\* useSpeechRecognition after its mount effect: the recognizer is there and not
\* started, no timer is set.  phase is idle, active (start() was called) or
\* stopping (stop() was called and onend has not come yet); timerRef is << >> or
\* << the 60 s timer: when it is due, and the isListening its callback closes over >>;
\* restart is << >> or << when the 100 ms restart of the catch block is due >>;
\* now is Date.now() in ms; starts counts the calls of startListening;
\* lastEvent names the handler that ran last.
RecognitionIdle ==
  [ phase |-> "idle", startTimeRef |-> 0, timerRef |-> << >>, restart |-> << >>,
    now |-> 0, starts |-> 0, lastEvent |-> "mount" ]

HookIdle ==
  /\ conversations = << >>
  /\ isTyping = FALSE
  /\ emotionHistory = << >>
  /\ typingTimerRef = 0
  /\ turns = << >>
  /\ greetings = 0
  /\ crisisHook = [isCrisisDetected |-> FALSE, crisisPhrase |-> Null, showModal |-> FALSE]
  /\ speech = [isListening |-> FALSE, transcript |-> ""]
  /\ voiceTimers = {}
  /\ clears = 0
  /\ darkMode = FALSE
  /\ recognition = RecognitionIdle
  /\ textFacts = TextFacts

SessionInit ==
  /\ HookIdle
  /\ apiKey \in BOOLEAN
  /\ reply = << >>
  /\ args = << >>
  /\ returned = << >>
  /\ heap = << createInitialUserProfile >>
  /\ initialDepth \in 0..1
  /\ sessionState = [ createInitialSessionState(1) EXCEPT !.sessionDepth = initialDepth ]
  /\ calls = 0

SessionUpdate ==
  /\ calls < MaxCalls
  /\ \E userInput \in SessionTexts, outcome \in Outcomes :
       LET gen == generateTherapistResponse(heap, apiKey, userInput, sessionState, << >>)
       IN /\ heap' = gen.heap
          /\ sessionState' = gen.updatedState
          /\ reply' = << [ text         |-> userInput,
                           sessionState |-> sessionState,
                           response     |-> IF gen.fetched THEN llamaResult(outcome)
                                            ELSE gen.response,
                           updatedState |-> gen.updatedState,
                           called       |-> gen.called,
                           fetched      |-> gen.fetched,
                           request      |-> gen.request ] >>
  /\ calls' = calls + 1
  /\ UNCHANGED << initialDepth, args, returned, hookVars >>

SessionNext == SessionUpdate

SessionSpec == SessionInit /\ [][SessionNext]_vars

\* C1: when the state updateSessionState produces for a turn has crisisDetected,
\* generateTherapistResponse returns the fixed safety string without calling
\* sendLlamaRequest or fetch, and returns the advanced session state.
C1_CrisisBypassesService ==
  \A r \in SeqToSet(reply) :
    r.updatedState.crisisDetected =>
      /\ r.response = CrisisSafetyResponse
      /\ ~r.called
      /\ ~r.fetched
      /\ r.updatedState.sessionDepth = r.sessionState.sessionDepth + 1
      /\ r.updatedState.lastAnalysis = << textFacts[r.text].analyzeText >>

\* a crisis text has been answered while the credential is there
C1_Witness ==
  \E r \in SeqToSet(reply) :
    /\ apiKey
    /\ r.updatedState.crisisDetected
    /\ r.response = CrisisSafetyResponse

\* C8: without the credential sendLlamaRequest makes no request and resolves
\* to the generic fallback string.
C8_NoCredentialNoFetch ==
  \A r \in SeqToSet(reply) :
    ~apiKey /\ r.called =>
      /\ ~r.fetched
      /\ r.request = << >>
      /\ r.response = LlamaFallback

\* sendLlamaRequest has been called without the credential
C8_Witness ==
  \E r \in SeqToSet(reply) : ~apiKey /\ r.called /\ r.response = LlamaFallback

\* C3: after N calls of updateSessionState, whatever the texts (crisis text, empty
\* text, the same text again), sessionDepth is the initial sessionDepth plus N.
C3_DepthCountsCalls == sessionState.sessionDepth = initialDepth + calls

\* a crisis text has been through updateSessionState after an earlier call
C3_Witness ==
  /\ calls >= 2
  /\ sessionState.crisisDetected
  /\ sessionState.sessionDepth = initialDepth + calls

\* C4: updateUserProfile leaves its input profile as it was, so a call of
\* updateSessionState leaves the profile of currentState unchanged.
C4_InputProfileUnchanged ==
  [][ heap'[sessionState.userProfile] = heap[sessionState.userProfile] ]_vars

ProfileNumbers(p) ==
  { p.personalityTraits[t] : t \in DOMAIN p.personalityTraits }
    \cup { p.communicationStyle[a] : a \in DOMAIN p.communicationStyle }
    \cup { p.interests[t] : t \in DOMAIN p.interests }
    \cup { p.concerns[e] : e \in DOMAIN p.concerns }

\* C5: from the initial profile, after any sequence of updates with analyses of
\* the analyzer, every number of the profile (traits, communication style,
\* interest levels, concern levels) is in [0, 1].
C5_ProfileInUnitInterval ==
  \A x \in ProfileNumbers(heap[sessionState.userProfile]) : 0 <= x /\ x <= Scale

\* three updates have left an interest, a concern and a moved trait
C5_Witness ==
  LET p == heap[sessionState.userProfile]
  IN /\ calls = MaxCalls
     /\ DOMAIN p.interests # {}
     /\ DOMAIN p.concerns # {}
     /\ p.personalityTraits.openness > Tenths(5)
     /\ p.communicationStyle.analytical > Tenths(5)

\* C11: after every updateSessionState, recentTopics has at most 3 entries and is
\* the first 3 elements of the turn's topics followed by the previous recentTopics.
C11_RecentTopicsNewestFirst ==
  /\ Len(sessionState.recentTopics) <= 3
  /\ \A r \in SeqToSet(reply) :
       LET all == textFacts[r.text].extractTopics \o r.sessionState.recentTopics
           kept == r.updatedState.recentTopics
       IN /\ Len(kept) = (IF Len(all) < 3 THEN Len(all) ELSE 3)
          /\ \A i \in 1..Len(kept) : kept[i] = all[i]

\* a turn with one topic has pushed the oldest topic out of a full list
C11_Witness ==
  \E r \in SeqToSet(reply) :
    /\ Len(r.sessionState.recentTopics) = 3
    /\ Len(textFacts[r.text].extractTopics) = 1
    /\ r.updatedState.recentTopics[1] = textFacts[r.text].extractTopics[1]
    /\ r.updatedState.recentTopics[3] = r.sessionState.recentTopics[2]
    /\ r.updatedState.recentTopics[3] # r.sessionState.recentTopics[3]

\* C25: recentTopics holds the topics of each of the 3 most recent turns that
\* had topics; in particular, after a turn with topics that follows a turn with
\* topics, the topics of both turns are in it.
C25_TopicsOfRecentTurnsKept ==
  [][ \A before \in SeqToSet(reply), after \in SeqToSet(reply') :
        LET earlier == SeqToSet(textFacts[before.text].extractTopics)
            latest == SeqToSet(textFacts[after.text].extractTopics)
        IN earlier # {} /\ latest # {}
             => (earlier \cup latest) \subseteq SeqToSet(sessionState'.recentTopics) ]_vars

\* the profile of the current session state
Profile == heap[sessionState.userProfile]

NoDuplicate(q) == \A i, j \in 1..Len(q) : q[i] = q[j] => i = j

\* C26: topicsDiscussed starts empty and every update keeps its entries in
\* their places, leaves no duplicate in it, and leaves in it exactly the topics
\* it held and the topics detected in the turn: it never has a duplicate, never
\* loses or reorders an entry, and holds exactly the topics detected so far.
C26_TopicsDiscussedAccumulate ==
  /\ Profile.learningHistory.topicsDiscussed = << >>
  /\ [][ \A r \in SeqToSet(reply') :
           LET was == Profile.learningHistory.topicsDiscussed
               is == Profile'.learningHistory.topicsDiscussed
           IN /\ Len(is) >= Len(was)
              /\ \A i \in 1..Len(was) : is[i] = was[i]
              /\ NoDuplicate(is)
              /\ SeqToSet(is) = SeqToSet(was) \cup SeqToSet(textFacts[r.text].extractTopics) ]_vars

\* after four topics have been recorded, a turn all of whose topics were
\* recorded before has been through the update
C26_Witness ==
  LET discussed == Profile.learningHistory.topicsDiscussed
  IN /\ Len(discussed) >= 4
     /\ \E r \in SeqToSet(reply) :
          /\ textFacts[r.text].extractTopics # << >>
          /\ SeqToSet(textFacts[r.text].extractTopics) \subseteq SeqToSet(discussed)
          /\ discussed[Len(discussed)] \notin SeqToSet(textFacts[r.text].extractTopics)

\* C27: conscientiousness and neuroticism stay at 0.5 through every update;
\* extraversion and agreeableness change only on a turn with sentiment score
\* above 0.5, openness only on a turn with complexity above 0.6.
C27_UntouchedTraits ==
  /\ Profile.personalityTraits.conscientiousness = Tenths(5)
  /\ Profile.personalityTraits.neuroticism = Tenths(5)
  /\ [][ \A r \in SeqToSet(reply') :
           LET was == Profile.personalityTraits
               is == Profile'.personalityTraits
               a == textFacts[r.text].analyzeText
           IN /\ is.conscientiousness = Tenths(5)
              /\ is.neuroticism = Tenths(5)
              /\ is.extraversion # was.extraversion => RatGt(a.sentiment.score, 5, 10)
              /\ is.agreeableness # was.agreeableness => RatGt(a.sentiment.score, 5, 10)
              /\ is.openness # was.openness => RatGt(a.complexity, 6, 10) ]_vars

\* the updates have moved extraversion, agreeableness and openness, and the
\* last one was a turn with a negative score
C27_Witness ==
  /\ Profile.personalityTraits.extraversion # Tenths(5)
  /\ Profile.personalityTraits.agreeableness # Tenths(5)
  /\ Profile.personalityTraits.openness # Tenths(5)
  /\ \E r \in SeqToSet(reply) : RatLe(textFacts[r.text].analyzeText.sentiment.score, -5, 10)

\* C14: the turn "I feel so anxious about work and can't sleep" has topic 'work',
\* anxiety intensity above 0, dominant emotions including 'anxiety', and leaves
\* approachUsed = ['cbt', 'mindfulness'].
C14_AnxietyKeywordSteersToCbt ==
  \A r \in SeqToSet(reply) :
    r.text = "I feel so anxious about work and can't sleep" =>
      /\ "work" \in SeqToSet(textFacts[r.text].extractTopics)
      /\ textFacts[r.text].analyzeText.emotions.anxiety > 0
      /\ "anxiety" \in SeqToSet(r.updatedState.dominantEmotions)
      /\ r.updatedState.approachUsed = << "cbt", "mindfulness" >>

(***************************************************************************)
(* ResourceSpec: one call of selectAppropriateResource.  A value of        *)
(* Math.random() is a fraction k/grid, 0 <= k < grid, held as Rat(k, grid); *)
(* random is the sequence of the values the call draws, in order.          *)
(***************************************************************************)
\* r < a/b
RatLt(r, a, b) == r.d > 0 /\ r.n * b < a * r.d

\* list[Math.floor(Math.random() * list.length)]
randomItem(list, u) == list[(u.n * Len(list)) \div u.d + 1]

\* the authors of the 15 quotes, in order
quoteSources ==
  << "Dan Millman", "Julian Seifter", "John Green", "A.A. Milne", "Rumi",
     "Nelson Mandela", "Nido Qubein", "Audrey Hepburn", "Albert Einstein",
     "Audre Lorde", "Megan Jayne Crabbe", "Dolly Parton", "Brené Brown",
     "Glenn Close", "J.K. Rowling" >>

generateQuote(u) ==
  [ type |-> "quote", title |-> Undefined, source |-> randomItem(quoteSources, u) ]

exerciseTitles ==
  << "4-7-8 Breathing", "Box Breathing", "Diaphragmatic Breathing",
     "Alternate Nostril Breathing", "Calming Breath" >>

generateBreathingExercise(u) ==
  [ type |-> "breathing", title |-> randomItem(exerciseTitles, u), source |-> Undefined ]

practiceTitles ==
  << "Body Scan", "Five Senses Grounding", "Mindful Walking",
     "Loving-Kindness Meditation", "Mindful Eating", "Thought Clouds" >>

generateMindfulnessPractice(u) ==
  [ type |-> "mindfulness", title |-> randomItem(practiceTitles, u), source |-> Undefined ]

strategyTitles ==
  [ anxiety    |-> << "Progressive Muscle Relaxation", "Worry Time", "Grounding Techniques" >>,
    depression |-> << "Behavioral Activation", "Gratitude Practice", "Movement for Mood" >>,
    anger      |-> << "Timeout Technique", "Physical Release", "Anger Journaling" >>,
    grief      |-> << "Memory Box", "Grief Journaling", "Grief Rituals" >>,
    neutral    |-> << "Values Reflection", "Mindful Moments", "Strength Inventory" >> ]

generateCopingStrategy(emotion, u) ==
  LET emotionToUse == IF emotion \in DOMAIN strategyTitles THEN emotion ELSE "neutral"
  IN [ type |-> "coping", title |-> randomItem(strategyTitles[emotionToUse], u),
       source |-> Undefined ]

\* title and contact of the 10 resources, in order; six of them have no contact
resources ==
  << [ title |-> "Crisis Text Line", contact |-> "Text HOME to 741741" ],
     [ title |-> "National Suicide Prevention Lifeline", contact |-> "Call or text 988" ],
     [ title |-> "SAMHSA's National Helpline", contact |-> "1-800-662-HELP (4357)" ],
     [ title |-> "Psychology Today Therapist Finder", contact |-> Undefined ],
     [ title |-> "MentalHealth.gov", contact |-> Undefined ],
     [ title |-> "National Alliance on Mental Illness (NAMI)",
       contact |-> "NAMI Helpline: 1-800-950-NAMI (6264)" ],
     [ title |-> "Headspace", contact |-> Undefined ],
     [ title |-> "Calm", contact |-> Undefined ],
     [ title |-> "7 Cups", contact |-> Undefined ],
     [ title |-> "Talkspace", contact |-> Undefined ] >>

generateMentalHealthResource(u) ==
  LET resource == randomItem(resources, u)
  IN [ type |-> "resource", title |-> resource.title, source |-> resource.contact ]

resourceTypes == << "quote", "breathing", "mindfulness", "coping", "resource" >>

\* a selector that offers a resource from the third turn on, on every third turn
selectAppropriateResourceEveryThirdTurn(state, messageCount, random) ==
  IF messageCount < 3 THEN << >>
  ELSE IF messageCount % 3 # 0 THEN << >>
  ELSE IF state.crisisDetected THEN << generateMentalHealthResource(random[1]) >>
  ELSE << generateQuote(random[3]) >>

\* << >> for null, << the resource >> otherwise
selectAppropriateResource(state, messageCount, random) ==
  LET dominantEmotion ==
        IF state.dominantEmotions # << >> THEN state.dominantEmotions[1] ELSE "neutral"
      randomFactor == random[1]
      resourceType == randomItem(resourceTypes, random[2])
  IN IF messageCount < 3 THEN << >>
     ELSE IF messageCount % 6 # 0 THEN << >>
     ELSE IF state.crisisDetected THEN << generateMentalHealthResource(random[1]) >>
     ELSE IF dominantEmotion = "anxiety" /\ RatLt(randomFactor, 6, 10)
       THEN IF RatLt(random[2], 5, 10) THEN << generateBreathingExercise(random[3]) >>
            ELSE << generateMindfulnessPractice(random[3]) >>
     ELSE IF dominantEmotion = "depression" /\ RatLt(randomFactor, 6, 10)
       THEN IF RatLt(random[2], 5, 10) THEN << generateCopingStrategy("depression", random[3]) >>
            ELSE << generateQuote(random[3]) >>
     ELSE IF dominantEmotion = "anger" /\ RatLt(randomFactor, 6, 10)
       THEN IF RatLt(random[2], 5, 10) THEN << generateBreathingExercise(random[3]) >>
            ELSE << generateCopingStrategy("anger", random[3]) >>
     ELSE IF dominantEmotion = "grief" /\ RatLt(randomFactor, 6, 10)
       THEN << generateCopingStrategy("grief", random[2]) >>
     ELSE CASE resourceType = "quote" -> << generateQuote(random[3]) >>
            [] resourceType = "breathing" -> << generateBreathingExercise(random[3]) >>
            [] resourceType = "mindfulness" -> << generateMindfulnessPractice(random[3]) >>
            [] resourceType = "coping" -> << generateCopingStrategy(dominantEmotion, random[3]) >>
            [] resourceType = "resource" -> << generateMentalHealthResource(random[3]) >>

\* the largest messageCount
MaxMessageCount == 13

\* the first two values drawn decide among at most 10 alternatives
RandomGrid == 10

\* the third value drawn picks one of at most 15 items
ItemGrid == 30

RandomValues(grid) == { Rat(k, grid) : k \in 0..(grid - 1) }

EmotionCategories ==
  { "anxiety", "depression", "anger", "grief", "joy", "confusion", "neutral" }

\* the session states handed to selectAppropriateResource
ResourceStates ==
  { [ createInitialSessionState(1) EXCEPT !.dominantEmotions = e, !.crisisDetected = c ] :
      e \in { << >> } \cup { << x >> : x \in EmotionCategories }, c \in BOOLEAN }

IdleState ==
  /\ HookIdle
  /\ heap = << createInitialUserProfile >>
  /\ sessionState = createInitialSessionState(1)
  /\ apiKey = TRUE
  /\ calls = 0
  /\ initialDepth = 0
  /\ reply = << >>
  /\ returned = << >>

ResourceInit ==
  /\ IdleState
  /\ args \in [ sessionState : ResourceStates, messageCount : 0..MaxMessageCount ]

SelectResource ==
  /\ returned = << >>
  /\ \E random \in RandomValues(RandomGrid) \X RandomValues(RandomGrid) \X RandomValues(ItemGrid) :
       returned' = << selectAppropriateResource(args.sessionState, args.messageCount, random) >>
  /\ UNCHANGED << heap, sessionState, apiKey, calls, initialDepth, reply, args, hookVars >>

ResourceNext == SelectResource

ResourceSpec == ResourceInit /\ [][ResourceNext]_vars

\* the turn counts on which a resource is due
Qualifying(messageCount) == messageCount >= 3 /\ messageCount % 6 = 0

\* C12: selectAppropriateResource returns null for a turn count below 3 and for one
\* not divisible by 6, and a resource for a turn count >= 3 divisible by 6,
\* whatever the session state and the random values.
C12_ResourceEverySixthTurn ==
  \A r \in SeqToSet(returned) : (r # << >>) <=> Qualifying(args.messageCount)

\* a resource has been returned on turn 12 through the last branch
C12_Witness ==
  /\ args.messageCount = 12
  /\ args.sessionState.dominantEmotions = << "joy" >>
  /\ ~args.sessionState.crisisDetected
  /\ \E r \in SeqToSet(returned) : r # << >> /\ r[1].type = "coping"

\* C13: on a qualifying turn with crisisDetected the resource returned carries
\* crisis contact information, whatever the random value.
C13_CrisisResourceHasContact ==
  \A r \in SeqToSet(returned) :
    Qualifying(args.messageCount) /\ args.sessionState.crisisDetected
      => r # << >> /\ r[1].type = "resource" /\ r[1].source # Undefined

(***************************************************************************)
(* RequestSpec: one call of generateTherapistResponse on a conversation     *)
(* history, up to the answer of the chat service.                           *)
(***************************************************************************)
\* a conversation log of n messages that starts with a message of type first and
\* goes on with entries and responses in turn, each with a text of its own
History(n, first) ==
  [ i \in 1..n |-> [ type     |-> IF i % 2 = 1 THEN first
                                  ELSE IF first = "entry" THEN "response" ELSE "entry",
                     text     |-> "message " \o ToString(i),
                     analysis |-> << >> ] ]

Histories == { History(n, first) : n \in 0..MaxHistory, first \in { "entry", "response" } }

RequestInit ==
  /\ IdleState
  /\ args \in [ userInput : SessionTexts, conversationHistory : Histories ]

GenerateResponse ==
  /\ returned = << >>
  /\ \E outcome \in Outcomes :
       LET gen == generateTherapistResponse(heap, apiKey, args.userInput, sessionState,
                                            args.conversationHistory)
       IN /\ heap' = gen.heap
          /\ sessionState' = gen.updatedState
          /\ returned' = << [ response |-> IF gen.fetched THEN llamaResult(outcome)
                                          ELSE gen.response,
                              served   |-> IF gen.fetched /\ outcome.kind = "ok"
                                           THEN << outcome.content >> ELSE << >>,
                              fetched  |-> gen.fetched,
                              request  |-> gen.request ] >>
  /\ UNCHANGED << apiKey, calls, initialDepth, reply, args, hookVars >>

RequestNext == GenerateResponse

RequestSpec == RequestInit /\ [][RequestNext]_vars

\* C15: on a non-crisis turn the request posted is the system prompt, then the
\* last 10 messages of the history in order (entry as user, response as
\* assistant), then the current text as the final user message: at most 12
\* messages, the current text once; the text the service answers with is the
\* response.
C15_RequestShape ==
  \A r \in SeqToSet(returned) :
    LET h == args.conversationHistory
        k == IF Len(h) < 10 THEN Len(h) ELSE 10
        req == r.request
    IN /\ r.fetched <=> ~sessionState.crisisDetected
       /\ r.fetched =>
            /\ Len(req) = k + 2
            /\ Len(req) <= 12
            /\ req[1] = [role |-> "system", content |-> createTherapySystemPrompt]
            /\ \A i \in 1..k :
                 /\ req[1 + i].content = h[Len(h) - k + i].text
                 /\ req[1 + i].role = (IF h[Len(h) - k + i].type = "entry" THEN "user"
                                       ELSE "assistant")
            /\ req[k + 2] = [role |-> "user", content |-> args.userInput]
            /\ Cardinality({ i \in 1..Len(req) : req[i].content = args.userInput }) = 1
            /\ r.served # << >> => r.response = r.served[1]

\* a turn with a history of more than 10 messages has been posted and answered
C15_Witness ==
  \E r \in SeqToSet(returned) :
    /\ r.fetched
    /\ Len(args.conversationHistory) = 12
    /\ Len(r.request) = 12
    /\ r.request[2].content = "message 3"
    /\ r.served # << >>
    /\ r.response = r.served[1]

(***************************************************************************)
(* AnalyzeSpec: one call of analyzeText on a text.                          *)
(***************************************************************************)
\* a plain word, a positive word, a negative word that is an anxiety keyword, an
\* intensifier, an anxiety keyword that ends a sentence, and punctuation alone
Vocabulary == { "hello", "happy", "anxious", "very", "nervous.", "?!" }

RECURSIVE Join(_)
Join(ws) ==
  IF ws = << >> THEN ""
  ELSE IF Len(ws) = 1 THEN ws[1]
  ELSE ws[1] \o " " \o Join(Tail(ws))

AnalyzedTexts ==
  { Join(ws) : ws \in UNION { [1..n -> Vocabulary] : n \in 0..MaxWords } }
    \cup SessionTexts
    \cup { "   ", "anxious nervous worry stress overwhelm panic" }

AnalyzeInit ==
  /\ IdleState
  /\ args \in [ text : AnalyzedTexts ]

Analyze ==
  /\ returned = << >>
  /\ returned' = << analyzeText(args.text) >>
  /\ UNCHANGED << heap, sessionState, apiKey, calls, initialDepth, reply, args, hookVars >>

AnalyzeNext == Analyze

AnalyzeSpec == AnalyzeInit /\ [][AnalyzeNext]_vars

\* the empty string, a single word, text with no word characters, and text with
\* no sentence terminator, none of them with a keyword in it
DegenerateTexts == { "", "hello", "?!", "   ", "hello hello" }

\* C17: for degenerate input analyzeText returns score 0, magnitude 0, label
\* neutral, every emotion intensity 0, no topics, and a complexity in [0, 1].
C17_DegenerateInputGivesDefaults ==
  \A r \in SeqToSet(returned) :
    args.text \in DegenerateTexts =>
      /\ r.sentiment.score = Rat(0, 1)
      /\ ~IsNaN(r.sentiment.magnitude)
      /\ r.sentiment.magnitude.n = 0
      /\ r.sentiment.label = "neutral"
      /\ \A e \in EmotionNames : r.emotions[e] = 0
      /\ r.topics = << >>
      /\ ~IsNaN(r.complexity)
      /\ 0 <= r.complexity.n
      /\ r.complexity.n <= r.complexity.d

\* C18: for every text, sentiment.score is in [-1, 1] and each of the 8 emotion
\* intensities is in [0, 1].
C18_ScoreAndIntensitiesInRange ==
  \A r \in SeqToSet(returned) :
    /\ r.sentiment.score.d > 0
    /\ -r.sentiment.score.d <= r.sentiment.score.n
    /\ r.sentiment.score.n <= r.sentiment.score.d
    /\ DOMAIN r.emotions = EmotionNames
    /\ Cardinality(EmotionNames) = 8
    /\ \A e \in EmotionNames : 0 <= r.emotions[e] /\ r.emotions[e] <= 10

\* a text with six anxiety keywords has been analyzed: the intensity is at the
\* cap, and the one sentiment word in it puts the score at -1
C18_Witness ==
  \E r \in SeqToSet(returned) :
    /\ args.text = "anxious nervous worry stress overwhelm panic"
    /\ r.emotions.anxiety = 10
    /\ r.sentiment.score = Rat(-1, 1)

(***************************************************************************)
(* UpdateSpec: one call of updateSessionState on a state left by an earlier *)
(* turn.                                                                    *)
(***************************************************************************)
\* states an earlier turn can have left: its classification and its approach
PreviousStates ==
  { [ createInitialSessionState(1) EXCEPT !.dominantEmotions = e, !.approachUsed = a ] :
      e \in { << "neutral" >>, << "anxiety" >>, << "grief" >> },
      a \in { << "supportive" >>, << "cbt", "mindfulness" >>,
              << "supportive", "existential" >> } }

UpdateInit ==
  /\ IdleState
  /\ args \in [ currentState : PreviousStates, userInput : SessionTexts \cup EmotionTexts ]

UpdateSessionState ==
  /\ returned = << >>
  /\ LET upd == updateSessionState(heap, args.currentState, args.userInput)
     IN /\ heap' = upd.heap
        /\ sessionState' = upd.state
        /\ returned' = << upd.state >>
  /\ UNCHANGED << apiKey, calls, initialDepth, reply, args, hookVars >>

UpdateNext == UpdateSessionState

UpdateSpec == UpdateInit /\ [][UpdateNext]_vars

\* C24: after updateSessionState, approachUsed has 2 tags and is fixed by the
\* emotions detected in the turn's text alone: anxiety first, else depression,
\* else grief, else confusion, else the default.
C24_ApproachByPriority ==
  \A r \in SeqToSet(returned) :
    LET detected == SeqToSet(textFacts[args.userInput].detectEmotions)
        approach == r.approachUsed
    IN /\ Len(approach) = 2
       /\ "anxiety" \in detected => approach = << "cbt", "mindfulness" >>
       /\ "anxiety" \notin detected /\ "depression" \in detected
            => approach = << "cbt", "supportive" >>
       /\ detected \cap { "anxiety", "depression" } = {} /\ "grief" \in detected
            => approach = << "supportive", "existential" >>
       /\ detected \cap { "anxiety", "depression", "grief" } = {} /\ "confusion" \in detected
            => approach = << "solution-focused", "existential" >>
       /\ detected \cap { "anxiety", "depression", "grief", "confusion" } = {}
            => approach = << "supportive", "solution-focused" >>

\* a turn classified anxiety, grief and confusion at once, after a turn that
\* left the grief approach, has been given the anxiety approach
C24_Witness ==
  \E r \in SeqToSet(returned) :
    /\ { "anxiety", "grief", "confusion" } \subseteq SeqToSet(r.dominantEmotions)
    /\ args.currentState.approachUsed = << "supportive", "existential" >>
    /\ r.approachUsed = << "cbt", "mindfulness" >>

(***************************************************************************)
(* Spec: the conversation hook (useConversation) under the App component,  *)
(* with the crisis hook and the speech hook as the App uses them.          *)
(*                                                                         *)
(* A handler runs to completion, and so do the microtasks it leaves: a     *)
(* promise that settles without a request being made is resumed within the *)
(* step of the handler that awaited it.  A request in flight, a running    *)
(* timer and a user gesture are steps of their own.                        *)
(*                                                                         *)
(* A handler reads the state of the render that created it.  For a gesture *)
(* that is the current state; the callback of the 300 ms timer of          *)
(* toggleListening keeps the state of the render in which the timer was    *)
(* set (voiceTimers holds it).                                             *)
(***************************************************************************)
Message(type, text) == [ type |-> type, text |-> text, analysis |-> << >> ]

\* a value inside a template literal
templateString(v) == IF v = Undefined THEN "undefined" ELSE v

\* calculateTypingDelay throws when text.split is not there
calculateTypingDelayThrows(text) == text \in { Undefined, Null }

\* an annotation that is never there
analysisDataMissing(updatedState) == << >>

\* analysisData of generateResponse
analysisDataOf(updatedState) ==
  IF updatedState.lastAnalysis = << >> THEN << >>
  ELSE LET a == updatedState.lastAnalysis[1]
       IN << [ emotions  |-> a.emotions,
               topics    |-> a.topics,
               sentiment |-> [ score |-> a.sentiment.score, label |-> a.sentiment.label ] ] >>

PendingStages == { "fetch", "timer" }

\* window.clearTimeout(id) on the typing timers: the callback of turn id never runs
clearTimeout(ts, id) ==
  IF id # 0 /\ ts[id].stage = "timer" THEN [ ts EXCEPT ![id].stage = "cleared" ] ELSE ts

\* generateResponse from the point where generateTherapistResponse has resolved
\* with response, up to the timer being set or the catch block being entered
resumeGenerateResponse(turn, response, failed) ==
  LET finalResponse ==
        IF turn.isCrisisDetected /\ turn.crisisPhrase # Null
        THEN getCrisisResponse(turn.crisisPhrase) \o "\n\n" \o templateString(response)
        ELSE response
      last == Len(turn.newConversations)
  IN [ turn EXCEPT
         !.response = response,
         !.failed = failed,
         !.finalResponse = finalResponse,
         !.updatedConversations =
            [ turn.newConversations EXCEPT ![last].analysis = analysisDataOf(turn.updatedState) ],
         !.stage = IF calculateTypingDelayThrows(finalResponse) THEN "error" ELSE "timer" ]

\* The state the resumed generateResponse of turn k leaves: t is the turn after
\* it, ts the turns, typing and log the values of isTyping and conversations it
\* finds (those the handler has just set when it resumes within the handler's step),
\* timers the 300 ms timers still running.  The typing timer runs for 1000 ms at
\* least, so it fires after every 300 ms timer that is running when it is set.
Resumed(k, t, ts, typing, log, timers) ==
  /\ turns' = ts
  /\ voiceTimers' = IF t.stage = "error" THEN timers
                    ELSE { [ v EXCEPT !.before = @ \cup { k } ] : v \in timers }
  /\ emotionHistory' =
       IF analysisDataOf(t.updatedState) # << >>
       THEN Append(emotionHistory,
                   [ timestamp |-> k, emotions |-> analysisDataOf(t.updatedState)[1].emotions ])
       ELSE emotionHistory
  /\ isTyping' = IF t.stage = "error" THEN FALSE ELSE typing
  /\ conversations' =
       IF t.stage = "error"
       THEN Append(t.newConversations, Message("response", HookErrorResponse))
       ELSE log
  /\ typingTimerRef' = IF t.stage = "error" THEN typingTimerRef ELSE k

\* c is the render the handler closes over (conversations and sessionState),
\* timers the 300 ms timers still running
addUserMessage(text, isCrisisDetected, crisisPhrase, c, timers) ==
  LET k == Len(turns) + 1
      newUserMessage == Message("entry", text)
      newConversations == Append(c.conversations, newUserMessage)
      updatedSessionState ==
        IF isCrisisDetected THEN [ c.sessionState EXCEPT !.crisisDetected = TRUE ]
        ELSE c.sessionState
      gen == generateTherapistResponse(heap, apiKey, text, updatedSessionState, c.conversations)
      turn == [ text                 |-> text,
                isCrisisDetected     |-> isCrisisDetected,
                crisisPhrase         |-> crisisPhrase,
                newConversations     |-> newConversations,
                baseState            |-> c.sessionState,
                updatedState         |-> gen.updatedState,
                called               |-> gen.called,
                fetched              |-> gen.fetched,
                request              |-> gen.request,
                failed               |-> FALSE,
                response             |-> Null,
                finalResponse        |-> Null,
                updatedConversations |-> << >>,
                stage                |-> "fetch",
                epoch                |-> clears ]
      resumed == resumeGenerateResponse(turn, gen.response, ~gen.fetched /\ gen.called)
      others == clearTimeout(turns, typingTimerRef)
  IN IF ~textFacts[text].trimNonEmpty
     THEN /\ voiceTimers' = timers
          /\ UNCHANGED << heap, sessionState, conversations, isTyping, emotionHistory,
                          typingTimerRef, turns >>
     ELSE /\ heap' = gen.heap
          /\ UNCHANGED sessionState
          /\ IF gen.fetched
             THEN /\ turns' = Append(others, turn)
                  /\ conversations' = newConversations
                  /\ isTyping' = TRUE
                  /\ voiceTimers' = timers
                  /\ UNCHANGED << emotionHistory, typingTimerRef >>
             ELSE Resumed(k, resumed, Append(others, resumed), TRUE, newConversations, timers)

\* useCrisisDetection.checkMessage: the hook state it leaves
checkMessage(message) ==
  LET detectedPhrase == textFacts[message].detectCrisisPhrases
  IN IF detectedPhrase # Null
     THEN [ isCrisisDetected |-> TRUE, crisisPhrase |-> detectedPhrase, showModal |-> TRUE ]
     ELSE crisisHook

\* c is the render the handler closes over (isListening, crisisPhrase,
\* conversations and sessionState), timers the 300 ms timers still running
handleSubmit(entry, c, timers) ==
  IF ~textFacts[entry].trimNonEmpty
  THEN /\ voiceTimers' = timers
       /\ UNCHANGED << heap, sessionState, conversations, isTyping, emotionHistory,
                       typingTimerRef, turns, crisisHook, speech >>
  ELSE /\ speech' = IF c.isListening THEN [ speech EXCEPT !.isListening = FALSE ] ELSE speech
       /\ IF textFacts[entry].isSearchQuery
          THEN /\ voiceTimers' = timers
               /\ UNCHANGED << heap, sessionState, conversations, isTyping, emotionHistory,
                               typingTimerRef, turns, crisisHook >>
          ELSE /\ crisisHook' = checkMessage(entry)
               /\ addUserMessage(entry, textFacts[entry].detectCrisisPhrases # Null,
                                 c.crisisPhrase, c, timers)

CurrentRender ==
  [ isListening   |-> speech.isListening,
    crisisPhrase  |-> crisisHook.crisisPhrase,
    conversations |-> conversations,
    sessionState  |-> sessionState ]

TurnBudget == Len(turns) + Cardinality(voiceTimers) < MaxTurns

Init ==
  /\ textFacts = TextFacts
  /\ apiKey \in BOOLEAN
  /\ heap = << createInitialUserProfile >>
  /\ sessionState = createInitialSessionState(1)
  /\ conversations = IF getInitialGreeting(apiKey).fetched THEN << >>
                     ELSE << Message("response", getInitialGreeting(apiKey).result) >>
  /\ greetings = IF getInitialGreeting(apiKey).fetched THEN 1 ELSE 0
  /\ isTyping = FALSE
  /\ emotionHistory = << >>
  /\ typingTimerRef = 0
  /\ turns = << >>
  /\ crisisHook = [ isCrisisDetected |-> FALSE, crisisPhrase |-> Null, showModal |-> FALSE ]
  /\ speech = [ isListening |-> FALSE, transcript |-> "" ]
  /\ voiceTimers = {}
  /\ clears = 0
  /\ calls = 0
  /\ initialDepth = 0
  /\ reply = << >>
  /\ args = << >>
  /\ returned = << >>
  /\ darkMode = FALSE
  /\ recognition = RecognitionIdle

\* the send button: it is disabled while isTyping or when the entry is blank
Submit ==
  /\ TurnBudget
  /\ ~isTyping
  /\ \E entry \in TypedTexts :
       /\ textFacts[entry].trimNonEmpty
       /\ handleSubmit(entry, CurrentRender, voiceTimers)
  /\ UNCHANGED << greetings, apiKey, clears, calls, initialDepth, reply, args, returned, darkMode, recognition, textFacts >>

\* the request of turn k is answered: generateTherapistResponse resolves and
\* generateResponse resumes
FetchReturn ==
  \E k \in 1..Len(turns), outcome \in Outcomes :
    /\ turns[k].stage = "fetch"
    /\ LET t == resumeGenerateResponse(turns[k], llamaResult(outcome), outcome.kind # "ok")
       IN Resumed(k, t, [ turns EXCEPT ![k] = t ], isTyping, conversations, voiceTimers)
    /\ UNCHANGED << heap, sessionState, greetings, apiKey, crisisHook, speech, clears, calls,
                    initialDepth, reply, args, returned, darkMode, recognition, textFacts >>

\* the callback of the typing timer of turn k
TimerFire ==
  \E k \in 1..Len(turns) :
    /\ turns[k].stage = "timer"
    /\ \A v \in voiceTimers : k \notin v.before
    /\ conversations' = Append(turns[k].updatedConversations,
                               Message("response", turns[k].finalResponse))
    /\ sessionState' = turns[k].updatedState
    /\ isTyping' = FALSE
    /\ typingTimerRef' = 0
    /\ turns' = [ turns EXCEPT ![k].stage = "done" ]
    /\ UNCHANGED << heap, emotionHistory, greetings, apiKey, crisisHook, speech, voiceTimers,
                    clears, calls, initialDepth, reply, args, returned, darkMode, recognition, textFacts >>

clearConversation ==
  /\ clears < MaxClears
  /\ clears' = clears + 1
  /\ heap' = Append(heap, createInitialUserProfile)
  /\ sessionState' = createInitialSessionState(Len(heap) + 1)
  /\ IF getInitialGreeting(apiKey).fetched
     THEN /\ greetings' = greetings + 1
          /\ UNCHANGED conversations
     ELSE /\ conversations' = << Message("response", getInitialGreeting(apiKey).result) >>
          /\ UNCHANGED greetings
  /\ UNCHANGED << isTyping, emotionHistory, typingTimerRef, turns, apiKey, crisisHook, speech,
                  voiceTimers, calls, initialDepth, reply, args, returned, darkMode, recognition, textFacts >>

\* the request of a greeting is answered: loadInitialGreeting resumes
GreetingReturn ==
  /\ greetings > 0
  /\ \E outcome \in Outcomes :
       conversations' = << Message("response", llamaResult(outcome)) >>
  /\ greetings' = greetings - 1
  /\ UNCHANGED << heap, sessionState, isTyping, emotionHistory, typingTimerRef, turns, apiKey,
                  crisisHook, speech, voiceTimers, clears, calls, initialDepth, reply, args, returned, darkMode, recognition, textFacts >>

\* the microphone button while not listening: startListening
StartListening ==
  /\ TurnBudget
  /\ ~speech.isListening
  /\ speech' = [ isListening |-> TRUE, transcript |-> "" ]
  /\ UNCHANGED << heap, sessionState, conversations, isTyping, emotionHistory, typingTimerRef,
                  turns, greetings, apiKey, crisisHook, voiceTimers, clears, calls,
                  initialDepth, reply, args, returned, darkMode, recognition, textFacts >>

\* recognition.onresult; the entry effect of the App copies the transcript to the entry
Recognize ==
  /\ speech.isListening
  /\ \E t \in SpokenTexts : speech' = [ speech EXCEPT !.transcript = t ]
  /\ UNCHANGED << heap, sessionState, conversations, isTyping, emotionHistory, typingTimerRef,
                  turns, greetings, apiKey, crisisHook, voiceTimers, clears, calls,
                  initialDepth, reply, args, returned, darkMode, recognition, textFacts >>

\* the microphone button while listening: stopListening, and the 300 ms timer
\* when there is a transcript
StopListening ==
  /\ speech.isListening
  /\ speech' = [ speech EXCEPT !.isListening = FALSE ]
  /\ IF textFacts[speech.transcript].trimNonEmpty
     THEN /\ TurnBudget
          /\ voiceTimers' = voiceTimers \cup
               { [ entry |-> speech.transcript, render |-> CurrentRender, before |-> {} ] }
     ELSE UNCHANGED voiceTimers
  /\ UNCHANGED << heap, sessionState, conversations, isTyping, emotionHistory, typingTimerRef,
                  turns, greetings, apiKey, crisisHook, clears, calls, initialDepth, reply, args, returned, darkMode, recognition, textFacts >>

\* the callback of a 300 ms timer: handleSubmit of the render that set it
VoiceTimerFire ==
  \E v \in voiceTimers :
    /\ handleSubmit(v.entry, v.render, voiceTimers \ { v })
    /\ UNCHANGED << greetings, apiKey, clears, calls, initialDepth, reply, args, returned, darkMode, recognition, textFacts >>

Next ==
  \/ Submit
  \/ FetchReturn
  \/ TimerFire
  \/ clearConversation
  \/ GreetingReturn
  \/ StartListening
  \/ Recognize
  \/ StopListening
  \/ VoiceTimerFire

Spec == Init /\ [][Next]_vars

Resolved(k) == turns[k].response # Null

Pending == { k \in 1..Len(turns) : turns[k].stage \in PendingStages }

\* C2: every submitted text in which detectCrisisPhrases finds a phrase is
\* answered by generateTherapistResponse with exactly the fixed safety string.
C2_PhraseAnsweredWithSafetyString ==
  \A k \in 1..Len(turns) :
    textFacts[turns[k].text].detectCrisisPhrases # Null /\ Resolved(k)
      => turns[k].response = CrisisSafetyResponse

\* C6: when the call of the chat service fails (no credential, network failure,
\* non-2xx status, malformed body, empty choices) generateTherapistResponse
\* resolves with one of the two fallback strings.
C6_FailureAnsweredWithFallback ==
  \A k \in 1..Len(turns) :
    turns[k].failed => turns[k].response \in { LlamaFallback, TherapistFallback }

\* C7: the state advanced for a turn is committed as the hook's sessionState
\* whatever becomes of the reply: no turn ends without the callback that commits it.
C7_EveryEndedTurnCommitted ==
  \A k \in 1..Len(turns) : k \notin Pending => turns[k].stage = "done"

\* C9: at most one user turn is pending at any time.
C9_AtMostOnePendingTurn == Cardinality(Pending) <= 1

SubmittedSinceReset == { k \in 1..Len(turns) : turns[k].epoch = clears }

\* C10: between resets the committed sessionDepth never decreases, and once no
\* turn is pending it is the number of user messages submitted since the last reset.
C10_DepthCountsTurns ==
  [][ /\ clears' = clears => sessionState'.sessionDepth >= sessionState.sessionDepth
      /\ Pending' = {} => sessionState'.sessionDepth = Cardinality(SubmittedSinceReset') ]_vars

\* C19: between resets the conversation log is append-only: a step other than
\* clearConversation keeps, at every index of the log, a message of the same
\* type and text.
C19_LogAppendOnly ==
  [][ clears' = clears =>
        \A i \in 1..Len(conversations) :
          /\ i <= Len(conversations')
          /\ conversations'[i].type = conversations[i].type
          /\ conversations'[i].text = conversations[i].text ]_vars

\* C20: a turn that addUserMessage was called for with isCrisisDetected = true
\* commits a session state with crisisDetected = true.
C20_CrisisFlagSurvivesUpdate ==
  \A k \in 1..Len(turns) :
    turns[k].isCrisisDetected /\ turns[k].stage = "done" =>
      turns[k].updatedState.crisisDetected

\* the reply of turn k has been worked out and its typing timer set
Shown(k) == turns[k].stage \in { "timer", "done" }

\* C21: on every turn in whose text checkMessage finds a crisis phrase,
\* addUserMessage is handed that phrase and the reply shown starts with the
\* getCrisisResponse text; on a turn with no phrase the reply has no prefix.
C21_CrisisTurnGetsPrefix ==
  \A k \in 1..Len(turns) :
    LET detectedPhrase == textFacts[turns[k].text].detectCrisisPhrases
    IN IF detectedPhrase # Null
       THEN /\ turns[k].isCrisisDetected
            /\ turns[k].crisisPhrase = detectedPhrase
            /\ Shown(k) => startsWith(turns[k].finalResponse,
                                       getCrisisResponse(detectedPhrase) \o "\n\n")
       ELSE /\ ~turns[k].isCrisisDetected
            /\ Shown(k) => turns[k].finalResponse = turns[k].response

\* C22: after clearConversation, until a new message is submitted, the replies
\* to messages submitted before it are discarded: once the greeting is in the
\* log, the log holds no message of an earlier turn, and sessionState is the
\* initial state throughout.
C22_ClearDiscardsPendingReply ==
  clears > 0 /\ SubmittedSinceReset = {} =>
    /\ greetings = 0 => \A i \in 1..Len(conversations) : conversations[i].type # "entry"
    /\ sessionState.sessionDepth = 0
    /\ sessionState.recentTopics = << >>
    /\ sessionState = createInitialSessionState(sessionState.userProfile)

\* Spec with every chat call answered and every timer fired
LiveSpec ==
  /\ Spec
  /\ WF_vars(FetchReturn)
  /\ WF_vars(TimerFire)
  /\ WF_vars(GreetingReturn)
  /\ WF_vars(VoiceTimerFire)

\* the entry of turn k is in the log and the message after it is the reply of
\* turn k: the response worked out for it, or the error response of its catch block
Replied(k) ==
  /\ k <= Len(turns)
  /\ turns[k].stage \in { "done", "error" }
  /\ \E i \in 1..(Len(conversations) - 1) :
       /\ conversations[i].type = "entry"
       /\ conversations[i].text = turns[k].text
       /\ conversations[i + 1].type = "response"
       /\ conversations[i + 1].text = (IF turns[k].stage = "error" THEN HookErrorResponse
                                       ELSE turns[k].finalResponse)

\* turn k was submitted before the last clearConversation
Reset(k) == k <= Len(turns) /\ turns[k].epoch < clears

\* C23: when every chat call returns and every timer fires, each message
\* accepted by addUserMessage is eventually followed in the log by its own
\* reply (unless the conversation is cleared), and isTyping eventually is false.
C23_EveryMessageAnswered ==
  /\ \A k \in 1..MaxTurns : <>(k <= Len(turns)) => <>(Replied(k) \/ Reset(k))
  /\ isTyping ~> ~isTyping

\* the turns whose generateTherapistResponse has resolved
Completed == { k \in 1..Len(turns) : turns[k].stage # "fetch" }

\* C28: emotionHistory holds exactly one entry for each turn whose response
\* generation has completed, with the turn's timestamp and emotion map; every
\* step keeps the entries it had in their places, and clearConversation leaves
\* it as it is.
C28_EmotionHistoryAppendOnly ==
  /\ [](/\ Len(emotionHistory) = Cardinality(Completed)
        /\ { emotionHistory[i].timestamp : i \in 1..Len(emotionHistory) } = Completed
        /\ \A i \in 1..Len(emotionHistory) :
             emotionHistory[i].emotions
               = textFacts[turns[emotionHistory[i].timestamp].text].analyzeText.emotions)
  /\ [][ /\ Len(emotionHistory') >= Len(emotionHistory)
         /\ \A i \in 1..Len(emotionHistory) : emotionHistory'[i] = emotionHistory[i]
         /\ clears' # clears => emotionHistory' = emotionHistory ]_vars

\* the entry of a turn before clearConversation is still first after a turn
\* submitted after it has added its own
C28_Witness ==
  /\ clears = 1
  /\ Len(turns) = 2
  /\ turns[1].epoch = 0
  /\ turns[2].epoch = 1
  /\ Len(emotionHistory) = 2
  /\ emotionHistory[1].timestamp = 1

(***************************************************************************)
(* LoadSpec: the load effects of useConversation and useTheme on the first  *)
(* render.  args is localStorage as the page finds it: for each key << >>   *)
(* (getItem answers null) or << the string stored >>; a string is described *)
(* by whether it is empty, whether it is well-formed JSON, and the value it *)
(* denotes.  returned lists the effects that have run, and whether each     *)
(* threw out of its callback.  The save effects, which run after the load   *)
(* effects, are not part of it.                                             *)
(***************************************************************************)
EmptyString == [ empty |-> TRUE, wellFormed |-> FALSE, value |-> << >> ]
Malformed == [ empty |-> FALSE, wellFormed |-> FALSE, value |-> << >> ]
\* JSON.stringify(v)
Stringified(v) == [ empty |-> FALSE, wellFormed |-> TRUE, value |-> << v >> ]

\* JSON.parse(text): the value, or a SyntaxError
JSONparse(text) == [ threw |-> ~text.wellFormed, value |-> text.value ]

\* if (item): null and the empty string are falsy
Truthy(item) == item # << >> /\ ~item[1].empty

StoredItems(values) ==
  { << >>, << EmptyString >>, << Malformed >> } \cup { << Stringified(v) >> : v \in values }

SavedConversations ==
  { << Message("response", "Tell me more."), Message("entry", "hello") >> }

\* a saved session state; its profile is parsed into the cell after the first
SavedSessionStates ==
  { [ createInitialSessionState(2) EXCEPT !.sessionDepth = 1, !.recentTopics = << "work" >> ] }

SavedEmotionHistories ==
  { << [ timestamp |-> 1, emotions |-> nlpDetectEmotions("hello") ] >> }

LoadInit ==
  /\ IdleState
  /\ args \in [ conversations : StoredItems(SavedConversations),
                 sessionState  : StoredItems(SavedSessionStates),
                 emotionData   : StoredItems(SavedEmotionHistories),
                 darkMode      : StoredItems(BOOLEAN) ]

Ran(effect) == \E i \in 1..Len(returned) : returned[i].effect = effect

\* useConversation: the effect that loads the three records.  JSON.parse of the
\* conversation log is outside any try block: when it throws, the callback ends
\* there, before the session state and the emotion history are read.
LoadConversation ==
  /\ ~Ran("useConversation")
  /\ LET log == IF Truthy(args.conversations) THEN JSONparse(args.conversations[1])
                ELSE [ threw |-> FALSE, value |-> << >> ]
         state == IF Truthy(args.sessionState) THEN JSONparse(args.sessionState[1])
                  ELSE [ threw |-> FALSE, value |-> << >> ]
         history == IF Truthy(args.emotionData) THEN JSONparse(args.emotionData[1])
                    ELSE [ threw |-> FALSE, value |-> << >> ]
         greeting == getInitialGreeting(apiKey)
     IN /\ returned' = Append(returned, [ effect |-> "useConversation", threw |-> log.threw ])
        /\ IF log.threw
           THEN UNCHANGED << conversations, greetings, heap, sessionState, emotionHistory >>
           ELSE /\ IF Truthy(args.conversations)
                   THEN conversations' = log.value[1] /\ UNCHANGED greetings
                   ELSE IF greeting.fetched
                        THEN greetings' = greetings + 1 /\ UNCHANGED conversations
                        ELSE /\ conversations' = << Message("response", greeting.result) >>
                             /\ UNCHANGED greetings
                /\ IF ~Truthy(args.sessionState)
                   THEN UNCHANGED << heap, sessionState >>
                   ELSE /\ heap' = Append(heap, createInitialUserProfile)
                        /\ sessionState' = IF state.threw
                                           THEN createInitialSessionState(Len(heap) + 1)
                                           ELSE state.value[1]
                /\ IF ~Truthy(args.emotionData)
                   THEN UNCHANGED emotionHistory
                   ELSE emotionHistory' = IF history.threw THEN << >> ELSE history.value[1]
  /\ UNCHANGED << isTyping, typingTimerRef, turns, apiKey, crisisHook, speech, voiceTimers,
                  clears, calls, initialDepth, reply, args, darkMode, recognition, textFacts >>

\* useTheme: the effect that loads the theme flag, or asks the system preference
LoadTheme ==
  /\ ~Ran("useTheme")
  /\ IF args.darkMode # << >>
     THEN LET flag == JSONparse(args.darkMode[1])
          IN /\ returned' = Append(returned, [ effect |-> "useTheme", threw |-> flag.threw ])
             /\ darkMode' = IF flag.threw THEN darkMode ELSE flag.value[1]
     ELSE /\ returned' = Append(returned, [ effect |-> "useTheme", threw |-> FALSE ])
          /\ \E prefersDark \in BOOLEAN : darkMode' = prefersDark
  /\ UNCHANGED << heap, sessionState, conversations, isTyping, emotionHistory, typingTimerRef,
                  turns, greetings, apiKey, crisisHook, speech, voiceTimers, clears, calls,
                  initialDepth, reply, args, recognition, textFacts >>

LoadNext == LoadConversation \/ LoadTheme

LoadSpec == LoadInit /\ [][LoadNext]_vars

\* a string that is stored and is not JSON
Corrupt(item) == item # << >> /\ ~item[1].wellFormed
Parseable(item) == item # << >> /\ item[1].wellFormed

\* C16: once the load effects have run, no effect has thrown, every record whose
\* stored string is not JSON is at its default, and every record whose stored
\* string is JSON holds the value stored.
C16_CorruptRecordResetsAlone ==
  Ran("useConversation") /\ Ran("useTheme") =>
    /\ \A i \in 1..Len(returned) : ~returned[i].threw
    /\ Corrupt(args.conversations) => conversations = << >>
    /\ Corrupt(args.sessionState) =>
         sessionState = createInitialSessionState(sessionState.userProfile)
    /\ Corrupt(args.emotionData) => emotionHistory = << >>
    /\ Corrupt(args.darkMode) => darkMode = FALSE
    /\ Parseable(args.conversations) => conversations = args.conversations[1].value[1]
    /\ Parseable(args.sessionState) => sessionState = args.sessionState[1].value[1]
    /\ Parseable(args.emotionData) => emotionHistory = args.emotionData[1].value[1]
    /\ Parseable(args.darkMode) => darkMode = args.darkMode[1].value[1]

(***************************************************************************)
(* SpeechSpec: useSpeechRecognition under the microphone button of the App. *)
(* The handlers onend and onerror are created once, by the mount effect,    *)
(* and close over the isListening of the first render; the callback of the  *)
(* 60 s timer closes over the isListening of the render startListening was  *)
(* called in.  A timer fires when it is due: the clock does not pass a      *)
(* pending timer.                                                           *)
(***************************************************************************)
\* minListeningTimeRef.current
minListeningTime == 10000
\* the delay of the timer startListening sets
maxListeningTime == 60000
\* the delay of the restart in the catch block of startListening
restartDelay == 100

\* isListening as the handlers of the mount effect see it: useState(false)
mountIsListening == FALSE

\* the steps the clock makes; it also steps to a restart that is pending
Delays == { 5000, 55000 }

SpeechInit ==
  /\ IdleState
  /\ args = << >>

\* stopListening of the hook: the recognition record and isListening it leaves
stopped(r) ==
  [ r EXCEPT !.timerRef = << >>,
             !.phase = IF r.phase = "active" THEN "stopping" ELSE r.phase ]

\* the microphone button while the render is not listening: startListening.
\* start() throws InvalidStateError when the recognizer has not ended yet.
startListening ==
  /\ ~speech.isListening
  /\ recognition.starts < MaxStarts
  /\ IF recognition.phase = "idle"
     THEN /\ speech' = [ isListening |-> TRUE, transcript |-> "" ]
          /\ recognition' = [ recognition EXCEPT
               !.phase = "active",
               !.starts = @ + 1,
               !.startTimeRef = recognition.now,
               !.timerRef = << [ due         |-> recognition.now + maxListeningTime,
                                 isListening |-> speech.isListening ] >>,
               !.lastEvent = "startListening" ]
     ELSE /\ speech' = [ speech EXCEPT !.transcript = "" ]
          /\ recognition' = [ recognition EXCEPT
               !.starts = @ + 1,
               !.startTimeRef = recognition.now,
               !.phase = "stopping",
               !.restart = << recognition.now + restartDelay >>,
               !.lastEvent = "startListening" ]
  /\ UNCHANGED << heap, sessionState, conversations, isTyping, emotionHistory, typingTimerRef,
                  turns, greetings, apiKey, crisisHook, voiceTimers, clears, calls,
                  initialDepth, reply, args, returned, darkMode, textFacts >>

\* the callback of the 100 ms restart
RestartTimerFire ==
  /\ recognition.restart # << >>
  /\ recognition.now >= recognition.restart[1]
  /\ IF recognition.phase = "idle"
     THEN /\ speech' = [ speech EXCEPT !.isListening = TRUE ]
          /\ recognition' = [ recognition EXCEPT
               !.phase = "active", !.startTimeRef = recognition.now,
               !.restart = << >>, !.lastEvent = "restart" ]
     ELSE /\ UNCHANGED speech
          /\ recognition' = [ recognition EXCEPT
               !.startTimeRef = recognition.now,
               !.restart = << >>, !.lastEvent = "restart" ]
  /\ UNCHANGED << heap, sessionState, conversations, isTyping, emotionHistory, typingTimerRef,
                  turns, greetings, apiKey, crisisHook, voiceTimers, clears, calls,
                  initialDepth, reply, args, returned, darkMode, textFacts >>

\* the microphone button while the render is listening: stopListening
stopListening ==
  /\ speech.isListening
  /\ speech' = [ speech EXCEPT !.isListening = FALSE ]
  /\ recognition' = [ stopped(recognition) EXCEPT !.lastEvent = "stopListening" ]
  /\ UNCHANGED << heap, sessionState, conversations, isTyping, emotionHistory, typingTimerRef,
                  turns, greetings, apiKey, crisisHook, voiceTimers, clears, calls,
                  initialDepth, reply, args, returned, darkMode, textFacts >>

\* recognition.onresult
onresult ==
  /\ recognition.phase = "active"
  /\ \E t \in SpokenTexts : speech' = [ speech EXCEPT !.transcript = t ]
  /\ recognition' = [ recognition EXCEPT !.lastEvent = "onresult" ]
  /\ UNCHANGED << heap, sessionState, conversations, isTyping, emotionHistory, typingTimerRef,
                  turns, greetings, apiKey, crisisHook, voiceTimers, clears, calls,
                  initialDepth, reply, args, returned, darkMode, textFacts >>

\* recognition.onend: the recognizer has ended, on its own (phase active) or
\* after stop() (phase stopping)
onend ==
  /\ recognition.phase \in { "active", "stopping" }
  /\ IF mountIsListening /\ recognition.now - recognition.startTimeRef < minListeningTime
     THEN /\ recognition' = [ recognition EXCEPT !.phase = "active", !.lastEvent = "onend" ]
          /\ UNCHANGED speech
     ELSE /\ recognition' = [ recognition EXCEPT !.phase = "idle", !.lastEvent = "onend" ]
          /\ speech' = [ speech EXCEPT !.isListening = FALSE ]
  /\ UNCHANGED << heap, sessionState, conversations, isTyping, emotionHistory, typingTimerRef,
                  turns, greetings, apiKey, crisisHook, voiceTimers, clears, calls,
                  initialDepth, reply, args, returned, darkMode, textFacts >>

\* recognition.onerror: no-speech is left alone by the handler of the mount
\* effect, any other error ends listening; the recognizer ends after an error
onerror ==
  /\ recognition.phase = "active"
  /\ \E error \in { "no-speech", "network" } :
       IF error = "no-speech"
       THEN IF mountIsListening
            THEN /\ recognition' = [ recognition EXCEPT
                      !.phase = "stopping",
                      !.restart = << recognition.now + restartDelay >>,
                      !.lastEvent = "onerror" ]
                 /\ UNCHANGED speech
            ELSE /\ recognition' = [ recognition EXCEPT !.lastEvent = "onerror" ]
                 /\ UNCHANGED speech
       ELSE /\ recognition' = [ recognition EXCEPT !.phase = "stopping", !.lastEvent = "onerror" ]
            /\ speech' = [ speech EXCEPT !.isListening = FALSE ]
  /\ UNCHANGED << heap, sessionState, conversations, isTyping, emotionHistory, typingTimerRef,
                  turns, greetings, apiKey, crisisHook, voiceTimers, clears, calls,
                  initialDepth, reply, args, returned, darkMode, textFacts >>

\* the callback of the 60 s timer: if (isListening) stopListening()
MaxTimerFire ==
  /\ recognition.timerRef # << >>
  /\ recognition.now >= recognition.timerRef[1].due
  /\ IF recognition.timerRef[1].isListening
     THEN /\ speech' = [ speech EXCEPT !.isListening = FALSE ]
          /\ recognition' = [ stopped(recognition) EXCEPT !.lastEvent = "maxTimer" ]
     ELSE /\ UNCHANGED speech
          /\ recognition' = [ recognition EXCEPT !.timerRef = << >>, !.lastEvent = "maxTimer" ]
  /\ UNCHANGED << heap, sessionState, conversations, isTyping, emotionHistory, typingTimerRef,
                  turns, greetings, apiKey, crisisHook, voiceTimers, clears, calls,
                  initialDepth, reply, args, returned, darkMode, textFacts >>

\* time passes, up to the next timer that is due
Elapse ==
  /\ \E d \in Delays \cup { restartDelay } :
       /\ d = restartDelay => recognition.restart # << >>
       /\ recognition.now + d <= MaxClock
       /\ recognition.timerRef # << >> => recognition.now + d <= recognition.timerRef[1].due
       /\ recognition.restart # << >> => recognition.now + d <= recognition.restart[1]
       /\ recognition' = [ recognition EXCEPT !.now = @ + d, !.lastEvent = "elapse" ]
  /\ UNCHANGED << heap, sessionState, conversations, isTyping, emotionHistory, typingTimerRef,
                  turns, greetings, apiKey, crisisHook, speech, voiceTimers, clears, calls,
                  initialDepth, reply, args, returned, darkMode, textFacts >>

SpeechNext ==
  \/ startListening
  \/ RestartTimerFire
  \/ stopListening
  \/ onresult
  \/ onend
  \/ onerror
  \/ MaxTimerFire
  \/ Elapse

SpeechSpec == SpeechInit /\ [][SpeechNext]_vars

\* C29: when the 60 s timer fires while listening is still active, listening
\* is stopped: isListening becomes false and the recognizer is stopped.
C29_MaxDurationStopsListening ==
  [][ /\ recognition.timerRef # << >>
      /\ recognition'.timerRef = << >>
      /\ recognition'.lastEvent = "maxTimer"
      /\ speech.isListening
      => /\ ~speech'.isListening
         /\ recognition'.phase # "active" ]_vars

\* C30: when the recognizer ends on its own less than 10 s after
\* startListening while listening is on, recognition is restarted and
\* isListening stays true.
C30_MinimumListeningTime ==
  [][ /\ recognition.phase = "active"
      /\ recognition'.lastEvent = "onend"
      /\ speech.isListening
      /\ recognition.now - recognition.startTimeRef < minListeningTime
      => /\ speech'.isListening
         /\ recognition'.phase = "active" ]_vars

=============================================================================
